---- MODULE Spec2Model ----
(***************************************************************************)
(* Service-hours tracker: school.py, student.py, hours.py, organization.py *)
(*                                                                         *)
(* A text field is a sequence of one-character strings, so that strip(),   *)
(* lower(), the date regular expression, float() and sorted() are computed *)
(* character by character as Python computes them.  A CSV file is the      *)
(* sequence of rows csv.reader yields (each row a sequence of fields), or  *)
(* NoFile when the file does not exist.  Hours are exact decimals counted  *)
(* in tenths (2.5 is 25): the literals used carry at most one fractional   *)
(* digit, and binary rounding of float sums is not modelled.               *)
(***************************************************************************)
EXTENDS Integers, Sequences, FiniteSets, TLC

VARIABLES service, total, students, report, corrupted, lastOp, vrow, vnum, vres

vars == <<service, total, students, report, corrupted, lastOp, vrow, vnum, vres>>

\* Largest number of records service_hours.csv holds in the model.
MaxRows == 3

\* school.py:19 / student.py:22: a row needs this many columns.
ExpectedColumns == 4

\* A file of the working directory: absent, or the rows csv.reader yields.
NoFile == [exists |-> FALSE, rows |-> <<>>]

File(rows) == [exists |-> TRUE, rows |-> rows]

(***************************************************************************)
(* Characters and strings                                                  *)
(***************************************************************************)
UpperCase == <<"A","B","C","D","E","F","G","H","I","J","K","L","M",
               "N","O","P","Q","R","S","T","U","V","W","X","Y","Z">>

LowerCase == <<"a","b","c","d","e","f","g","h","i","j","k","l","m",
               "n","o","p","q","r","s","t","u","v","w","x","y","z">>

DigitChars == <<"0","1","2","3","4","5","6","7","8","9">>

IndexIn(c, seq) == IF \E i \in DOMAIN seq : seq[i] = c
                   THEN CHOOSE i \in DOMAIN seq : seq[i] = c
                   ELSE 0

IsDigit(c) == IndexIn(c, DigitChars) > 0

DigitVal(c) == IndexIn(c, DigitChars) - 1

IsSpace(c) == c = " "

\* ord(): the code point, which is what str comparison and sorted() use.
Ord(c) == IF IndexIn(c, UpperCase) > 0 THEN 64 + IndexIn(c, UpperCase)
          ELSE IF IndexIn(c, LowerCase) > 0 THEN 96 + IndexIn(c, LowerCase)
          ELSE IF IsDigit(c) THEN 48 + DigitVal(c)
          ELSE IF c = " " THEN 32
          ELSE IF c = "+" THEN 43
          ELSE IF c = "-" THEN 45
          ELSE IF c = "." THEN 46
          ELSE 0

LowerChar(c) == IF IndexIn(c, UpperCase) > 0 THEN LowerCase[IndexIn(c, UpperCase)] ELSE c

\* str.lower()
Lower(s) == [i \in DOMAIN s |-> LowerChar(s[i])]

RECURSIVE LStrip(_)
LStrip(s) == IF s # <<>> /\ IsSpace(Head(s)) THEN LStrip(Tail(s)) ELSE s

RECURSIVE RStrip(_)
RStrip(s) == IF s # <<>> /\ IsSpace(s[Len(s)]) THEN RStrip(SubSeq(s, 1, Len(s) - 1)) ELSE s

\* str.strip()
Strip(s) == RStrip(LStrip(s))

\* str < str: lexicographic by code point, a proper prefix is smaller.
RECURSIVE StrLess(_, _)
StrLess(a, b) == IF b = <<>> THEN FALSE
                 ELSE IF a = <<>> THEN TRUE
                 ELSE IF Ord(Head(a)) # Ord(Head(b)) THEN Ord(Head(a)) < Ord(Head(b))
                 ELSE StrLess(Tail(a), Tail(b))

AllDigits(s) == \A i \in DOMAIN s : IsDigit(s[i])

\* Variant of DateMatches that also checks the calendar: month 01-12, day 01-31.
DateMatchesCalendar(date) ==
    /\ Len(date) = 10
    /\ \A i \in {1, 2, 3, 4, 6, 7, 9, 10} : date[i] \in {"0","1","2","3","4","5","6","7","8","9"}
    /\ date[5] = "-"
    /\ date[8] = "-"
    /\ date[6] \in {"0", "1"}
    /\ (date[6] = "1" => date[7] \in {"0", "1", "2"})
    /\ <<date[6], date[7]>> # <<"0", "0">>
    /\ date[9] \in {"0", "1", "2", "3"}
    /\ (date[9] = "3" => date[10] \in {"0", "1"})
    /\ <<date[9], date[10]>> # <<"0", "0">>

\* re.match(r'^\d{4}-\d{2}-\d{2}$', date)
DateMatches(date) ==
    /\ Len(date) = 10
    /\ \A i \in {1, 2, 3, 4, 6, 7, 9, 10} : IsDigit(date[i])
    /\ date[5] = "-"
    /\ date[8] = "-"

RECURSIVE DigitsValue(_)
DigitsValue(s) == IF s = <<>> THEN 0
                  ELSE 10 * DigitsValue(SubSeq(s, 1, Len(s) - 1)) + DigitVal(s[Len(s)])

\* float(text) on decimal literals: surrounding whitespace ignored, an optional
\* sign, digits with at most one '.', at least one digit.  ok = FALSE is
\* ValueError; val is the value in tenths.
ParseFloat(text) ==
    LET t    == Strip(text)
        neg  == t # <<>> /\ Head(t) = "-"
        body == IF t # <<>> /\ Head(t) \in {"-", "+"} THEN Tail(t) ELSE t
        dot  == IndexIn(".", body)
        ip   == IF dot = 0 THEN body ELSE SubSeq(body, 1, dot - 1)
        fp   == IF dot = 0 THEN <<>> ELSE SubSeq(body, dot + 1, Len(body))
        ok   == AllDigits(ip) /\ AllDigits(fp) /\ Len(ip) + Len(fp) > 0
        mag  == 10 * DigitsValue(ip) + (IF fp = <<>> THEN 0 ELSE DigitVal(fp[1]))
    IN  IF ok THEN [ok |-> TRUE, val |-> IF neg THEN -mag ELSE mag]
        ELSE [ok |-> FALSE, val |-> 0]

RECURSIVE NatDigits(_)
NatDigits(n) == IF n < 10 THEN <<DigitChars[n + 1]>>
                ELSE NatDigits(n \div 10) \o <<DigitChars[(n % 10) + 1]>>

\* str(float): what csv.writer and an f-string make of a float, "2.0", "-1.5".
FormatFloat(v) ==
    LET m == IF v < 0 THEN -v ELSE v
    IN  (IF v < 0 THEN <<"-">> ELSE <<>>) \o NatDigits(m \div 10) \o <<".">> \o NatDigits(m % 10)

(***************************************************************************)
(* is_row_corrupted (school.py and student.py hold the same text)          *)
(***************************************************************************)
sTrue == <<"t","r","u","e">>

sFalse == <<"f","a","l","s","e">>

\* The f-string message: row number, fixed text, the interpolated detail.
Message(row_number, text, detail) == <<row_number, text, detail>>

\* Variant of FirstEmptyField that tests the columns from the last to the first.
FirstEmptyFieldLastFirst(name, date, hours_str, status) ==
    IF status = <<>> THEN "Missing or empty status"
    ELSE IF hours_str = <<>> THEN "Missing or empty hours"
    ELSE IF date = <<>> THEN "Missing or empty date"
    ELSE IF name = <<>> THEN "Missing or empty student name"
    ELSE ""

\* The four emptiness tests, in the order the code makes them: the message text
\* of the first field that is empty after strip(), "" when none is.
FirstEmptyField(name, date, hours_str, status) ==
    IF name = <<>> THEN "Missing or empty student name"
    ELSE IF date = <<>> THEN "Missing or empty date"
    ELSE IF hours_str = <<>> THEN "Missing or empty hours"
    ELSE IF status = <<>> THEN "Missing or empty status"
    ELSE ""

\* if hours < 0
IsNegative(hours) == hours < 0

is_row_corrupted(row, row_number) ==
    IF Len(row) < ExpectedColumns
    THEN <<TRUE, Message(row_number, "Missing columns", NatDigits(Len(row)))>>
    ELSE
    LET name      == Strip(row[1])
        date      == Strip(row[2])
        hours_str == Strip(row[3])
        status    == Strip(row[4])
        hours     == ParseFloat(hours_str)
        empty     == FirstEmptyField(name, date, hours_str, status)
    IN  IF empty # ""
        THEN <<TRUE, Message(row_number, empty, <<>>)>>
        ELSE IF ~DateMatches(date)
        THEN <<TRUE, Message(row_number, "Invalid date format", date)>>
        ELSE IF ~hours.ok
        THEN <<TRUE, Message(row_number, "Invalid hours value", hours_str)>>
        ELSE IF IsNegative(hours.val)
        THEN <<TRUE, Message(row_number, "Hours cannot be negative", FormatFloat(hours.val))>>
        ELSE IF Lower(status) \notin {sTrue, sFalse}
        THEN <<TRUE, Message(row_number, "Invalid status", status)>>
        ELSE <<FALSE, <<>>>>

(***************************************************************************)
(* check_for_corrupted_rows and the aggregation of create_total_hours_csv  *)
(***************************************************************************)
RECURSIVE CorruptedFrom(_, _)
CorruptedFrom(rows, row_number) ==
    IF row_number > Len(rows) THEN <<>>
    ELSE LET r == is_row_corrupted(rows[row_number], row_number)
         IN  (IF r[1] THEN << <<row_number, r[2]>> >> ELSE <<>>)
             \o CorruptedFrom(rows, row_number + 1)

\* Variant of check_for_corrupted_rows that numbers the rows from 0
\* (enumerate without start=1).
check_for_corrupted_rows_from_zero(file) ==
    IF ~file.exists THEN <<>>
    ELSE LET found == CorruptedFrom(file.rows, 1)
         IN  [k \in DOMAIN found |-> <<found[k][1] - 1, found[k][2]>>]

\* The list check_for_corrupted_rows returns; [] when the file is missing.
check_for_corrupted_rows(file) ==
    IF ~file.exists THEN <<>> ELSE CorruptedFrom(file.rows, 1)

EmptyDict == [k \in {} |-> 0]

\* d[key] += hours, the key created at 0.0 when absent.
AddHours(d, key, hours) ==
    [k \in DOMAIN d \cup {key} |-> (IF k \in DOMAIN d THEN d[k] ELSE 0) + (IF k = key THEN hours ELSE 0)]

\* Only count approved hours: status == 'true'
IsApprovedStatus(status) == status = sTrue

\* The reading loop of create_total_hours_csv, from row row_number on.
RECURSIVE FoldApproved(_, _, _)
FoldApproved(rows, row_number, student_hours) ==
    IF row_number > Len(rows) THEN student_hours
    ELSE LET row == rows[row_number]
         IN  IF is_row_corrupted(row, row_number)[1]
             THEN FoldApproved(rows, row_number + 1, student_hours)
             ELSE IF Len(row) >= ExpectedColumns
             THEN LET name   == Strip(row[1])
                      hours  == ParseFloat(row[3]).val
                      status == Lower(Strip(row[4]))
                  IN  IF IsApprovedStatus(status)
                      THEN FoldApproved(rows, row_number + 1, AddHours(student_hours, name, hours))
                      ELSE FoldApproved(rows, row_number + 1, student_hours)
             ELSE FoldApproved(rows, row_number + 1, student_hours)

\* sorted(keys): ascending by code point.
RECURSIVE SortedKeys(_)
SortedKeys(keys) ==
    IF keys = {} THEN <<>>
    ELSE LET least == CHOOSE k \in keys : \A o \in keys \ {k} : StrLess(k, o)
         IN  <<least>> \o SortedKeys(keys \ {least})

Header == <<"Student Name", "Total Hours">>

\* Variant of WriteTotal that updates the file in place: the rows it held stay
\* and the new ones follow.
WriteTotalKeepingOld(old, student_hours) ==
    LET keys == SortedKeys(DOMAIN student_hours)
        kept == IF old.rows = <<>> THEN <<>> ELSE Tail(old.rows)
    IN  File(<<Header>> \o kept \o [i \in DOMAIN keys |-> <<keys[i], student_hours[keys[i]]>>])

\* open('total_hours.csv', 'w'): the old content is discarded, then the header
\* and one row per key of student_hours in sorted order.
WriteTotal(old, student_hours) ==
    LET keys == SortedKeys(DOMAIN student_hours)
    IN  File(<<Header>> \o [i \in DOMAIN keys |-> <<keys[i], student_hours[keys[i]]>>])

\* student_hours when service_hours.csv is missing: os.path.exists is false,
\* the loop is skipped, nothing is raised and the write below still happens.
ReadStudentHours(file) ==
    IF ~file.exists THEN EmptyDict ELSE FoldApproved(file.rows, 1, EmptyDict)

\* Variant of create_total_hours_csv that returns before writing when
\* service_hours.csv is missing.
create_total_hours_csv_abort_when_missing(file, old) ==
    IF ~file.exists THEN old ELSE WriteTotal(old, ReadStudentHours(file))

\* create_total_hours_csv: the content of total_hours.csv after the call.
create_total_hours_csv(file, old) == WriteTotal(old, ReadStudentHours(file))

(***************************************************************************)
(* school.py: module-level aggregation and get_student_total_hours         *)
(***************************************************************************)
\* The module-level loop of school.py: every row that is not corrupted adds
\* its hours to students[name]; the status column is not read.
RECURSIVE FoldStudents(_, _, _)
FoldStudents(rows, row_number, acc) ==
    IF row_number > Len(rows) THEN acc
    ELSE LET row == rows[row_number]
         IN  IF is_row_corrupted(row, row_number)[1]
             THEN FoldStudents(rows, row_number + 1, acc)
             ELSE IF Len(row) >= ExpectedColumns
             THEN FoldStudents(rows, row_number + 1,
                               AddHours(acc, Strip(row[1]), ParseFloat(row[3]).val))
             ELSE FoldStudents(rows, row_number + 1, acc)

\* The scan of get_student_total_hours over the rows after the header: the
\* first row whose name matches case-insensitively, 0.0 when there is none.
RECURSIVE LookupFrom(_, _, _)
LookupFrom(rows, i, student_name) ==
    IF i > Len(rows) THEN 0
    ELSE IF Len(rows[i]) >= 2 /\ Lower(Strip(rows[i][1])) = Lower(student_name)
    THEN rows[i][2]
    ELSE LookupFrom(rows, i + 1, student_name)

\* get_student_total_hours on an existing total_hours.csv.
get_student_total_hours(student_name, file) ==
    IF file.rows = <<>> THEN 0 ELSE LookupFrom(Tail(file.rows), 1, student_name)

(***************************************************************************)
(* organization.py                                                         *)
(***************************************************************************)
\* Variant of ApproveRow that writes the answer into every row: 'true' on y,
\* 'false' otherwise.
ApproveRowOverwrite(row, answer_y) ==
    [row EXCEPT ![4] = IF answer_y THEN sTrue ELSE sFalse]

\* Step 2 for one row: row[3] = "true" when row[3].lower() == "false" and the
\* reviewer answers y; every other row, and every other column, is kept.
ApproveRow(row, answer_y) ==
    IF Lower(row[4]) = sFalse /\ answer_y
    THEN [row EXCEPT ![4] = sTrue]
    ELSE row

\* Rows for which the reviewer is asked.
Pending(rows) == {i \in DOMAIN rows : Lower(rows[i][4]) = sFalse}

\* Step 3: writer.writerows(rows), every row read in step 1, in order.
WriteBack(rows, approve) == File([i \in DOMAIN rows |-> ApproveRow(rows[i], i \in approve)])

(***************************************************************************)
(* Record creation: student.py and hours.py                                *)
(***************************************************************************)
\* open(..., mode='a') and writer.writerow(row): creates the file when absent.
AppendRow(file, row) == File(file.rows \o <<row>>)

\* student.py: writer.writerow([user_name, date, hours_worked, "false"])
StudentRow(user_name, date, hours_worked) ==
    <<user_name, date, FormatFloat(hours_worked), sFalse>>

\* hours.py: writer.writerow([user_name, date, hours_worked])
HoursRow(user_name, date, hours_worked) ==
    <<user_name, date, FormatFloat(hours_worked)>>

(***************************************************************************)
(* Values the model draws rows and keyboard input from                     *)
(***************************************************************************)
sAnn == <<"A","n","n">>

sAnnLower == <<"a","n","n">>

sBob == <<"B","o","b">>

sBobPadded == <<" ","B","o","b"," ">>

sCal == <<"C","a","l">>

sZed == <<"Z","e","d">>

sDate == <<"2","0","2","4","-","0","1","-","0","1">>

sDateNoCalendar == <<"2","0","2","4","-","1","3","-","4","0">>

sDateShort == <<"2","0","2","4","-","1","-","0","1">>

sX == <<"x">>

sBlank == <<" ">>

\* Rows service_hours.csv may hold when the programs start: the file is
\* plain text that is also edited by hand.
InitRows ==
    { <<sAnn, sDate, <<"2">>, sTrue>>,
      <<sAnnLower, sDate, <<"3">>, sTrue>>,
      <<sCal, sDate, <<"-","1">>, sTrue>>,
      <<sBob, sDate, <<"1",".","5">>, <<"F","a","l","s","e">>>>,
      <<sBobPadded, sDateNoCalendar, <<"0">>, <<" ","t","r","u","e">>>>,
      <<sAnn, sDate, <<"2">>>> }

RECURSIVE SeqsUpTo(_, _)
SeqsUpTo(S, n) ==
    IF n = 0 THEN {<<>>}
    ELSE LET shorter == SeqsUpTo(S, n - 1)
         IN  shorter \cup {<<x>> \o s : x \in S, s \in {t \in shorter : Len(t) = n - 1}}

\* What the keyboard supplies to input().
NameInputs == {sAnn, <<>>}

DateInputs == {sDate}

HoursInputs == {<<"2">>, <<"0">>, sX}

\* A summary left behind by an earlier run over other records.
StaleTotal == File(<<Header, <<sZed, 70>>, <<sAnn, 990>>>>)

\* Fields and rows handed to is_row_corrupted on its own.
NameFields == {<<>>, sBlank, sAnn, sBobPadded}

DateFields == {<<>>, sBlank, sDate, <<" ">> \o sDate, sDateNoCalendar, sDateShort, sX}

HoursFields == {<<>>, sBlank, <<"2">>, <<"0">>, <<"-","1">>, <<"1",".","5">>, <<" ","3"," ">>,
                <<"+","2">>, <<"-","0",".","5">>, <<"2",".">>, <<".">>, <<"1",".","2",".","3">>, sX}

StatusFields == {<<>>, sBlank, sTrue, <<"F","a","l","s","e">>, <<"T","R","U","E">>,
                 <<" ","t","r","u","e"," ">>, <<"y","e","s">>, <<"t","r","u","e","x">>}

FullRows == {<<n, d, h, st>> : n \in NameFields, d \in DateFields, h \in HoursFields, st \in StatusFields}

AllRows == FullRows
           \cup {SubSeq(r, 1, k) : r \in FullRows, k \in 0..3}
           \cup {r \o <<sX>> : r \in {<<n, d, h, st>> : n \in {<<>>, sAnn}, d \in {sDate, sX},
                                                      h \in {<<"2">>, sX}, st \in {sTrue, sBlank}}}

(***************************************************************************)
(* The programs as a state machine                                         *)
(***************************************************************************)
NotRun == <<>>

Init ==
    /\ service \in {NoFile} \cup {File(rows) : rows \in SeqsUpTo(InitRows, MaxRows)}
    /\ total \in {NoFile, StaleTotal}
    /\ students = EmptyDict
    /\ report = EmptyDict
    /\ corrupted = <<>>
    /\ lastOp = "none"
    /\ vrow = <<>>
    /\ vnum = 0
    /\ vres = NotRun

\* python student.py, entries that pass its checks (any other entry exits
\* before the file is touched): append the record, then rebuild the summary.
StudentPy ==
    \E user_name \in NameInputs, date \in DateInputs, text \in HoursInputs :
        LET hours_worked == ParseFloat(text)
            appended == AppendRow(service, StudentRow(user_name, date, hours_worked.val))
        IN  /\ hours_worked.ok
            /\ user_name # <<>>
            /\ ~(hours_worked.val <= 0)
            /\ DateMatches(date)
            /\ Len(service.rows) < MaxRows
            /\ service' = appended
            /\ corrupted' = check_for_corrupted_rows(appended)
            /\ total' = create_total_hours_csv(appended, total)
            /\ lastOp' = "student.py"
            /\ UNCHANGED <<students, report, vrow, vnum, vres>>

\* python hours.py: float() is the only check, then the three-column append.
HoursPy ==
    \E user_name \in NameInputs, date \in DateInputs, text \in HoursInputs :
        LET hours_worked == ParseFloat(text)
        IN  /\ hours_worked.ok
            /\ Len(service.rows) < MaxRows
            /\ service' = AppendRow(service, HoursRow(user_name, date, hours_worked.val))
            /\ lastOp' = "hours.py"
            /\ UNCHANGED <<total, students, report, corrupted, vrow, vnum, vres>>

\* python organization.py: open() raises when the file is missing and row[3]
\* raises IndexError on a row with fewer than 4 columns, both before step 3,
\* so the file is then left as it was.
OrganizationPy ==
    /\ service.exists
    /\ \A i \in DOMAIN service.rows : Len(service.rows[i]) >= 4
    /\ \E approve \in SUBSET Pending(service.rows) :
           service' = WriteBack(service.rows, approve)
    /\ lastOp' = "organization.py"
    /\ UNCHANGED <<total, students, report, corrupted, vrow, vnum, vres>>

\* A call of create_total_hours_csv().
CreateTotalHoursCsv ==
    /\ corrupted' = check_for_corrupted_rows(service)
    /\ total' = create_total_hours_csv(service, total)
    /\ lastOp' = "create_total_hours_csv"
    /\ UNCHANGED <<service, students, report, vrow, vnum, vres>>

\* students after the module-level loop of school.py.
SchoolStudents(file) == FoldStudents(file.rows, 1, EmptyDict)

\* python school.py: diagnostics, the module-level totals, then one
\* get_student_total_hours per student, the first of which creates
\* total_hours.csv when it is missing.  A missing service_hours.csv exits.
SchoolPy ==
    /\ corrupted' = check_for_corrupted_rows(service)
    /\ IF ~service.exists
       THEN /\ students' = EmptyDict
            /\ report' = EmptyDict
            /\ total' = total
       ELSE LET st  == SchoolStudents(service)
                tot == IF DOMAIN st # {} /\ ~total.exists
                       THEN create_total_hours_csv(service, total)
                       ELSE total
            IN  /\ students' = st
                /\ total' = tot
                /\ report' = [name \in DOMAIN st |-> get_student_total_hours(name, tot)]
    /\ lastOp' = "school.py"
    /\ UNCHANGED <<service, vrow, vnum, vres>>

Next == StudentPy \/ HoursPy \/ OrganizationPy \/ CreateTotalHoursCsv \/ SchoolPy

Spec == Init /\ [][Next]_vars

\* is_row_corrupted called on one row.
InitValidator ==
    /\ service = NoFile
    /\ total = NoFile
    /\ students = EmptyDict
    /\ report = EmptyDict
    /\ corrupted = <<>>
    /\ lastOp = "none"
    /\ vrow \in AllRows
    /\ vnum \in {1, 2}
    /\ vres = NotRun

ValidateRow ==
    /\ vres = NotRun
    /\ vres' = is_row_corrupted(vrow, vnum)
    /\ UNCHANGED <<service, total, students, report, corrupted, lastOp, vrow, vnum>>

NextValidator == ValidateRow

SpecValidator == InitValidator /\ [][NextValidator]_vars

(***************************************************************************)
(* Properties                                                              *)
(***************************************************************************)
\* Operations whose last step is create_total_hours_csv over the record set
\* as it now stands.
AggOps == {"student.py", "create_total_hours_csv"}

\* Operations that call check_for_corrupted_rows on the record set as it now stands.
CheckOps == AggOps \cup {"school.py"}

RECURSIVE SumHours(_, _)
SumHours(rows, idx) ==
    IF idx = {} THEN 0
    ELSE LET i == CHOOSE j \in idx : TRUE
         IN  ParseFloat(rows[i][3]).val + SumHours(rows, idx \ {i})

\* Positions of the rows is_row_corrupted does not flag.
ValidIdx(rows) == {i \in DOMAIN rows : ~is_row_corrupted(rows[i], i)[1]}

\* ... whose status is 'true', case-folded.
ApprovedIdx(rows) == {i \in ValidIdx(rows) : Lower(Strip(rows[i][4])) = sTrue}

\* ... whose status is 'false', case-folded.
UnapprovedIdx(rows) == {i \in ValidIdx(rows) : Lower(Strip(rows[i][4])) = sFalse}

\* Identity of a row: the trimmed name; two identities are the same person
\* when they agree case-insensitively.
Identity(row) == Strip(row[1])

SameIdentity(a, b) == Lower(a) = Lower(b)

SummaryRows == Tail(total.rows)

\* C1: after create_total_hours_csv, every identity X with an approved valid
\* row has exactly one summary entry, and each entry's total is the sum of the
\* hours of the rows that are not corrupted, have status 'true' and whose
\* trimmed identity equals X case-insensitively ('Ann' and 'ann' are one entry).
C1_CaseFoldedTotals ==
    lastOp \in AggOps =>
        LET rows == service.rows
        IN  /\ \A j \in ApprovedIdx(rows) :
                   Cardinality({i \in DOMAIN SummaryRows :
                                   SameIdentity(SummaryRows[i][1], Identity(rows[j]))}) = 1
            /\ \A i \in DOMAIN SummaryRows :
                   SummaryRows[i][2] =
                       SumHours(rows, {j \in ApprovedIdx(rows) :
                                          SameIdentity(Identity(rows[j]), SummaryRows[i][1])})

\* C2: a valid row with status 'false' adds to no per-student total (the
\* summary of create_total_hours_csv, the students totals of school.py) and is
\* in no diagnostics: every total is the sum over the approved valid rows of
\* that name, and a name is listed only when it has such a row.
C2_UnapprovedNeverCounted ==
    LET rows == service.rows
        ApprovedOf(name) == {j \in ApprovedIdx(rows) : Identity(rows[j]) = name}
    IN  /\ lastOp \in AggOps =>
               \A i \in DOMAIN SummaryRows :
                   /\ ApprovedOf(SummaryRows[i][1]) # {}
                   /\ SummaryRows[i][2] = SumHours(rows, ApprovedOf(SummaryRows[i][1]))
        /\ (lastOp = "school.py" /\ service.exists) =>
               \A name \in DOMAIN students :
                   /\ ApprovedOf(name) # {}
                   /\ students[name] = SumHours(rows, ApprovedOf(name))
        /\ lastOp \in CheckOps =>
               \A k \in DOMAIN corrupted : corrupted[k][1] \notin UnapprovedIdx(rows)

\* C3: the diagnostics are exactly the rows is_row_corrupted flags, each with its
\* 1-based position and message, in source order; the flagged rows add to no
\* total of the summary or of students; an empty record set gives a header-only
\* summary and no diagnostics.
C3_DiagnosticsExact ==
    LET rows == service.rows
    IN  /\ lastOp \in CheckOps =>
               /\ \A k \in DOMAIN corrupted :
                      /\ corrupted[k][1] \in DOMAIN rows
                      /\ is_row_corrupted(rows[corrupted[k][1]], corrupted[k][1])
                             = <<TRUE, corrupted[k][2]>>
               /\ \A n \in DOMAIN rows \ ValidIdx(rows) :
                      \E k \in DOMAIN corrupted : corrupted[k][1] = n
               /\ \A k \in 1..(Len(corrupted) - 1) : corrupted[k][1] < corrupted[k + 1][1]
        /\ lastOp \in AggOps =>
               \A i \in DOMAIN SummaryRows :
                   SummaryRows[i][2] =
                       SumHours(rows, {j \in ApprovedIdx(rows) : Identity(rows[j]) = SummaryRows[i][1]})
        /\ (lastOp = "school.py" /\ service.exists) =>
               \A name \in DOMAIN students :
                   students[name] = SumHours(rows, {j \in ValidIdx(rows) : Identity(rows[j]) = name})
        /\ (lastOp \in AggOps /\ rows = <<>>) =>
               (total = File(<<Header>>) /\ corrupted = <<>>)

\* C3 witness: an aggregation over three rows of which the first and the third
\* are corrupted and the second is counted.
C3_Witness ==
    /\ lastOp = "create_total_hours_csv"
    /\ Len(service.rows) = 3
    /\ Len(corrupted) = 2
    /\ corrupted[1][1] = 1
    /\ corrupted[2][1] = 3
    /\ Len(SummaryRows) = 1

\* The rules of is_row_corrupted a row violates, numbered in the order of the
\* specification: 1 column count; 2..5 identity, date, hours, status empty
\* after trimming; 6 date format; 7 hours not a number or negative; 8 status.
ViolatedRules(row) ==
    {r \in 1..8 :
        \/ r = 1 /\ Len(row) < 4
        \/ r \in 2..5 /\ Len(row) >= r - 1 /\ Strip(row[r - 1]) = <<>>
        \/ r = 6 /\ Len(row) >= 2 /\ ~DateMatches(Strip(row[2]))
        \/ r = 7 /\ Len(row) >= 3 /\ (~ParseFloat(row[3]).ok \/ ParseFloat(row[3]).val < 0)
        \/ r = 8 /\ Len(row) >= 4 /\ Lower(Strip(row[4])) \notin {sTrue, sFalse}}

\* The rule a message text belongs to.
RuleOf(text) ==
    CASE text = "Missing columns" -> 1
      [] text = "Missing or empty student name" -> 2
      [] text = "Missing or empty date" -> 3
      [] text = "Missing or empty hours" -> 4
      [] text = "Missing or empty status" -> 5
      [] text = "Invalid date format" -> 6
      [] text \in {"Invalid hours value", "Hours cannot be negative"} -> 7
      [] text = "Invalid status" -> 8
      [] OTHER -> 0

\* C4: is_row_corrupted flags a row exactly when it violates some rule, and the
\* one reason it gives is that of the earliest violated rule in the order
\* columns, empty identity, empty date, empty hours, empty status, date format,
\* hours, status; a row of fewer than 4 fields always gets 'Missing columns'.
C4_FirstViolatedRule ==
    vres # NotRun =>
        LET bad == ViolatedRules(vrow)
        IN  /\ vres[1] <=> bad # {}
            /\ vres[1] =>
                   /\ vres[2][1] = vnum
                   /\ RuleOf(vres[2][2]) \in bad
                   /\ \A r \in bad : RuleOf(vres[2][2]) <= r
            /\ Len(vrow) < 4 => vres[1] /\ vres[2][2] = "Missing columns"

\* C4 witness: the all-blank row violates rules 2 to 8 and is reported for the
\* identity field.
C4_Witness ==
    /\ vrow = <<<<>>, <<>>, <<>>, <<>>>>
    /\ vres = <<TRUE, Message(vnum, "Missing or empty student name", <<>>)>>

\* Four digits, hyphen, two digits, hyphen, two digits.
FourTwoTwo(d) ==
    /\ Len(d) = 10
    /\ AllDigits(SubSeq(d, 1, 4)) /\ d[5] = "-"
    /\ AllDigits(SubSeq(d, 6, 7)) /\ d[8] = "-"
    /\ AllDigits(SubSeq(d, 9, 10))

\* C5 as stated: a row of 4 non-empty fields with a date of the form
\* DDDD-DD-DD, hours a number >= 0 and status 'true' or 'false' in any case is
\* not corrupted and has an empty reason.
C5_NonEmptyFieldsValid ==
    ( /\ vres # NotRun
      /\ Len(vrow) = 4
      /\ \A k \in 1..4 : vrow[k] # <<>>
      /\ FourTwoTwo(vrow[2])
      /\ ParseFloat(vrow[3]).ok /\ ParseFloat(vrow[3]).val >= 0
      /\ Lower(vrow[4]) \in {sTrue, sFalse} )
    => vres = <<FALSE, <<>>>>

\* C5 amended: the same with every field non-empty after trimming surrounding
\* whitespace (a name of blanks only is reported as an empty student name).
C5_TrimmedFieldsValid ==
    ( /\ vres # NotRun
      /\ Len(vrow) = 4
      /\ \A k \in 1..4 : Strip(vrow[k]) # <<>>
      /\ FourTwoTwo(vrow[2])
      /\ ParseFloat(vrow[3]).ok /\ ParseFloat(vrow[3]).val >= 0
      /\ Lower(vrow[4]) \in {sTrue, sFalse} )
    => vres = <<FALSE, <<>>>>

\* C5 witness: a date no calendar holds, zero hours and an upper-case status pass.
C5_Witness ==
    /\ vrow = <<sAnn, sDateNoCalendar, <<"0">>, <<"T","R","U","E">>>>
    /\ vres = <<FALSE, <<>>>>

\* C6: the summary is the header followed by rows strictly ascending by
\* identity under case-insensitive comparison (so no identity fills two rows),
\* and every identity with an approved valid row has a row.
C6_SortedCaseInsensitive ==
    lastOp \in AggOps =>
        /\ total.exists
        /\ total.rows[1] = Header
        /\ \A i, j \in DOMAIN SummaryRows :
               i < j => StrLess(Lower(SummaryRows[i][1]), Lower(SummaryRows[j][1]))
        /\ \A j \in ApprovedIdx(service.rows) :
               \E i \in DOMAIN SummaryRows :
                   SameIdentity(SummaryRows[i][1], Identity(service.rows[j]))

KeptOrApproved(old, new, op) ==
    \/ new = old
    \/ /\ op = "organization.py"
       /\ Len(old) >= 4
       /\ Len(new) = Len(old)
       /\ \A k \in DOMAIN old \ {4} : new[k] = old[k]
       /\ Lower(old[4]) = sFalse
       /\ new[4] = sTrue

C8_Step ==
    /\ service.exists => service'.exists
    /\ Len(service'.rows) >= Len(service.rows)
    /\ \A i \in DOMAIN service.rows :
           KeptOrApproved(service.rows[i], service'.rows[i], lastOp')
    /\ lastOp' \in {"create_total_hours_csv", "school.py"} => service' = service
    /\ lastOp' \in {"student.py", "hours.py"} =>
           /\ Len(service'.rows) = Len(service.rows) + 1
           /\ SubSeq(service'.rows, 1, Len(service.rows)) = service.rows

\* C8: no step of record creation, approval or aggregation shortens or reorders
\* the record set or changes identity, date or hours of an existing record; an
\* existing record changes only by organization.py turning its approved field
\* from 'false' to 'true'; creation appends one record; aggregation changes nothing.
C8_RecordsOnlyApproved == [][C8_Step]_vars

\* C8 witness: organization.py has approved Bob's pending record (no initial or
\* created record has this content).
C8_Witness ==
    /\ lastOp = "organization.py"
    /\ \E i \in DOMAIN service.rows :
           service.rows[i] = <<sBob, sDate, <<"1",".","5">>, sTrue>>

\* C9: the record a creation entry point (student.py, hours.py) has just
\* appended has an approved field, and it is the literal 'false'.
C9_CreatedUnapproved ==
    lastOp \in {"student.py", "hours.py"} =>
        LET row == service.rows[Len(service.rows)]
        IN  Len(row) >= 4 /\ row[4] = sFalse

\* Every entry of the summary is justified by the record set: its name is the
\* trimmed name of an approved valid record and its total the sum over those.
Justified(summary, rows) ==
    /\ summary.exists
    /\ summary.rows # <<>>
    /\ summary.rows[1] = Header
    /\ \A i \in 2..Len(summary.rows) :
           LET of == {j \in ApprovedIdx(rows) : Identity(rows[j]) = summary.rows[i][1]}
           IN  of # {} /\ summary.rows[i][2] = SumHours(rows, of)

C10_Step ==
    lastOp' \in AggOps =>
        /\ Justified(total', service'.rows)
        /\ (lastOp \in AggOps /\ service' = service) => total' = total

\* C10: a run of create_total_hours_csv on a record set unchanged since the last
\* run writes the same summary again, and every run's summary is rebuilt from
\* the record set alone: nothing total_hours.csv held before survives unless
\* the record set justifies it.
C10_RebuiltFromScratch == [][C10_Step]_vars

\* C10 witness: after a run the summary is the header and Ann's 2.0 hours, with
\* nothing of the earlier summary (Zed, Ann at 99.0).
C10_Witness ==
    /\ lastOp = "create_total_hours_csv"
    /\ total = File(<<Header, <<sAnn, 20>>>>)

====
